---- MODULE Spec2Model ----
(***************************************************************************)
(* State-machine model of projekt/generator/main.py: a linear script that  *)
(* asks a registry for the project "Lucija & Lev", fetches that project's  *)
(* sequence catalog and issues two loops of POST requests, printing every  *)
(* decoded answer.  Program positions are source line numbers ("l22" is    *)
(* line 22; "l22w" is line 22 blocked inside the HTTP call).               *)
(***************************************************************************)
EXTENDS Integers, Sequences, FiniteSets, TLC

\* ---------------------------------------------------------------- bounds
MaxProjects == 3   \* longest registry list the environment answers with
MaxCatalog == 1    \* longest generator catalog the environment answers with

\* ------------------------------------------------------------ environment
Target == "Lucija & Lev"
RegistryUrl == "http://127.0.0.1:7878/project"
NotFoundMessage == "Lucija & Lev not found"

Names == {Target, "Ana & Bor"}
Ips == {"10.0.0.5"}
Ports == {80, 8125}
ProjectDescriptors == [name : Names, ip : Ips, port : Ports]

RECURSIVE SeqsUpTo(_, _)
SeqsUpTo(S, n) ==
    IF n = 0 THEN {<<>>}
    ELSE LET shorter == SeqsUpTo(S, n - 1)
         IN shorter \cup {Append(s, e) : s \in shorter, e \in S}

ProjectLists == SeqsUpTo(ProjectDescriptors, MaxProjects)

GeneratorNames == {"Arithmetic", "Smoothed"}
Catalogs == SeqsUpTo([name : GeneratorNames], MaxCatalog)

\* Bodies a project may answer a POST with.  The first two are JSON texts
\* whose decoded value prints as the same text; the last one is not JSON.
RawBodies == {"[1, 2]", "{}", "Not Found"}
IsJson(t) == t \in {"[1, 2]", "{}"}

\* An unhandled exception: the HTTP call raised, or .json() raised.
FailKinds == {"neterr", "badjson"}

\* --------------------------------------------------------- program state
VARIABLES
    pc,        \* program position
    status,    \* "running", "exit0", "exit1" or "uncaught" (traceback)
    projects,  \* line 3
    idx,       \* position of the iterator of the for statement of line 4
    j,         \* loop variable of line 4, rebound by the loop of line 11
    url,       \* line 6
    seqs,      \* line 8
    k,         \* line 9, in tenths (9 is 0.9)
    z,         \* line 10, in tenths (10 is 1)
    it11,      \* position of the range iterator of line 11
    i,         \* loop variable of line 24
    it24,      \* position of the range iterator of line 24
    body,      \* lines 12 and 25
    r,         \* lines 22 and 34: the raw answer of the last POST
    inflight,  \* number of HTTP requests sent and not yet answered
    trace      \* observable events in order: send, recv, print, fail

vars == <<pc, status, projects, idx, j, url, seqs, k, z, it11, i, it24,
          body, r, inflight, trace>>

NoBody == <<>>

Event(ev, line, method, u, b, text) ==
    [ev |-> ev, line |-> line, method |-> method, url |-> u,
     body |-> b, text |-> text]

\* str() of a non-negative integer: its decimal digits.
Digit == <<"0", "1", "2", "3", "4", "5", "6", "7", "8", "9">>

RECURSIVE str(_)
str(n) ==
    IF n < 10 THEN Digit[n + 1]
    ELSE str(n \div 10) \o Digit[(n % 10) + 1]

\* line 6
SequenceUrl(p) == "http://" \o p.ip \o ":" \o str(p.port) \o "/sequence"

Init ==
    /\ pc = "l3"
    /\ status = "running"
    /\ projects = <<>>
    /\ idx = 0
    /\ j = 0
    /\ url = ""
    /\ seqs = <<>>
    /\ k = 0
    /\ z = 0
    /\ it11 = 0
    /\ i = 0
    /\ it24 = 0
    /\ body = NoBody
    /\ r = ""
    /\ inflight = 0
    /\ trace = <<>>

\* A call failed with an exception nobody catches: the failure is recorded
\* (the traceback) and the interpreter stops.
Uncaught(line, events, kind) ==
    /\ trace' = trace \o events \o <<Event("fail", line, "", "", NoBody, kind)>>
    /\ status' = "uncaught"
    /\ pc' = "done"

\* ------------------------------------------------ line 3: GET /project
Get3Send ==
    /\ pc = "l3"
    /\ trace' = Append(trace, Event("send", 3, "GET", RegistryUrl, NoBody, ""))
    /\ inflight' = inflight + 1
    /\ pc' = "l3w"
    /\ UNCHANGED <<status, projects, idx, j, url, seqs, k, z, it11, i, it24, body, r>>

Get3Ok ==
    /\ pc = "l3w"
    /\ \E p \in ProjectLists : projects' = p
    /\ trace' = Append(trace, Event("recv", 3, "GET", RegistryUrl, NoBody, ""))
    /\ inflight' = inflight - 1
    /\ pc' = "l4"
    /\ UNCHANGED <<status, idx, j, url, seqs, k, z, it11, i, it24, body, r>>

Get3Fail ==
    /\ pc = "l3w"
    /\ \E kind \in FailKinds :
          Uncaught(3, IF kind = "badjson"
                      THEN <<Event("recv", 3, "GET", RegistryUrl, NoBody, "")>>
                      ELSE <<>>, kind)
    /\ inflight' = inflight - 1
    /\ UNCHANGED <<projects, idx, j, url, seqs, k, z, it11, i, it24, body, r>>

\* ------------------------------------- lines 4-5: the registry loop
\* for/else reading of lines 4 and 37: an exhausted loop reports not-found.
For4_forelse ==
    /\ pc = "l4"
    /\ IF idx < Len(projects)
       THEN /\ j' = projects[idx + 1]
            /\ idx' = idx + 1
            /\ pc' = "l5"
       ELSE /\ pc' = "l38"
            /\ UNCHANGED <<j, idx>>
    /\ UNCHANGED <<status, projects, url, seqs, k, z, it11, i, it24, body, r,
                   inflight, trace>>

\* The for statement takes the next entry, or ends the loop when the
\* iterator is exhausted; control then falls off the end of the module.
For4 ==
    /\ pc = "l4"
    /\ IF idx < Len(projects)
       THEN /\ j' = projects[idx + 1]
            /\ idx' = idx + 1
            /\ pc' = "l5"
       ELSE /\ pc' = "l41"
            /\ UNCHANGED <<j, idx>>
    /\ UNCHANGED <<status, projects, url, seqs, k, z, it11, i, it24, body, r,
                   inflight, trace>>

\* A non-matching entry is skipped and the search goes on.
If5_continue ==
    /\ pc = "l5"
    /\ pc' = IF j.name = Target THEN "l6" ELSE "l4"
    /\ UNCHANGED <<status, projects, idx, j, url, seqs, k, z, it11, i, it24,
                   body, r, inflight, trace>>

\* The else of line 37 belongs to this if, not to the for statement.
If5 ==
    /\ pc = "l5"
    /\ pc' = IF j.name = Target THEN "l6" ELSE "l38"
    /\ UNCHANGED <<status, projects, idx, j, url, seqs, k, z, it11, i, it24,
                   body, r, inflight, trace>>

\* ------------------------------------------------------- lines 6-10
Url6 ==
    /\ pc = "l6"
    /\ url' = SequenceUrl(j)
    /\ pc' = "l7"
    /\ UNCHANGED <<status, projects, idx, j, seqs, k, z, it11, i, it24, body, r,
                   inflight, trace>>

Print7 ==
    /\ pc = "l7"
    /\ trace' = Append(trace, Event("print", 7, "", "", NoBody, url))
    /\ pc' = "l8"
    /\ UNCHANGED <<status, projects, idx, j, url, seqs, k, z, it11, i, it24,
                   body, r, inflight>>

Get8Send ==
    /\ pc = "l8"
    /\ trace' = Append(trace, Event("send", 8, "GET", url, NoBody, ""))
    /\ inflight' = inflight + 1
    /\ pc' = "l8w"
    /\ UNCHANGED <<status, projects, idx, j, url, seqs, k, z, it11, i, it24, body, r>>

Get8Ok ==
    /\ pc = "l8w"
    /\ \E c \in Catalogs : seqs' = c
    /\ trace' = Append(trace, Event("recv", 8, "GET", url, NoBody, ""))
    /\ inflight' = inflight - 1
    /\ pc' = "l9"
    /\ UNCHANGED <<status, projects, idx, j, url, k, z, it11, i, it24, body, r>>

Get8Fail ==
    /\ pc = "l8w"
    /\ \E kind \in FailKinds :
          Uncaught(8, IF kind = "badjson"
                      THEN <<Event("recv", 8, "GET", url, NoBody, "")>>
                      ELSE <<>>, kind)
    /\ inflight' = inflight - 1
    /\ UNCHANGED <<projects, idx, j, url, seqs, k, z, it11, i, it24, body, r>>

Assign9 ==
    /\ pc = "l9"
    /\ k' = 9
    /\ z' = 10
    /\ pc' = "l11"
    /\ UNCHANGED <<status, projects, idx, j, url, seqs, it11, i, it24, body, r,
                   inflight, trace>>

\* ------------------------------------------- lines 11-23: first loop
\* The loop count taken from the fetched catalog.
range11_catalog == Len(seqs) + 1

range11 == 2

For11 ==
    /\ pc = "l11"
    /\ IF it11 < range11
       THEN /\ j' = it11
            /\ it11' = it11 + 1
            /\ pc' = "l12"
       ELSE /\ pc' = "l24"
            /\ UNCHANGED <<j, it11>>
    /\ UNCHANGED <<status, projects, idx, url, seqs, k, z, i, it24, body, r,
                   inflight, trace>>

body12(n) ==
    [range |-> [from |-> n * 100, to |-> (n + 1) * 100, step |-> 1],
     parameters |-> <<z, k>>,
     sequences |-> <<>>]

Body12 ==
    /\ pc = "l12"
    /\ body' = <<body12(j)>>
    /\ pc' = "l22"
    /\ UNCHANGED <<status, projects, idx, j, url, seqs, k, z, it11, i, it24, r,
                   inflight, trace>>

Post22Send ==
    /\ pc = "l22"
    /\ trace' = Append(trace, Event("send", 22, "POST", url \o "/Arithmetc", body, ""))
    /\ inflight' = inflight + 1
    /\ pc' = "l22w"
    /\ UNCHANGED <<status, projects, idx, j, url, seqs, k, z, it11, i, it24, body, r>>

Post22Ok ==
    /\ pc = "l22w"
    /\ \E t \in RawBodies :
          /\ r' = t
          /\ trace' = Append(trace, Event("recv", 22, "POST", url \o "/Arithmetc", NoBody, t))
    /\ inflight' = inflight - 1
    /\ pc' = "l23"
    /\ UNCHANGED <<status, projects, idx, j, url, seqs, k, z, it11, i, it24, body>>

\* The failed POST is recorded and then sent again.
Post22Fail_retry ==
    /\ pc = "l22w"
    /\ trace' = Append(trace, Event("fail", 22, "", "", NoBody, "neterr"))
    /\ inflight' = inflight - 1
    /\ pc' = "l22"
    /\ UNCHANGED <<status, projects, idx, j, url, seqs, k, z, it11, i, it24, body, r>>

Post22Fail ==
    /\ pc = "l22w"
    /\ Uncaught(22, <<>>, "neterr")
    /\ inflight' = inflight - 1
    /\ UNCHANGED <<projects, idx, j, url, seqs, k, z, it11, i, it24, body, r>>

\* The answer is decoded but not printed.
Print23_silent ==
    /\ pc = "l23"
    /\ IF IsJson(r)
       THEN /\ pc' = "l11"
            /\ UNCHANGED <<status, trace>>
       ELSE Uncaught(23, <<>>, "badjson")
    /\ UNCHANGED <<projects, idx, j, url, seqs, k, z, it11, i, it24, body, r,
                   inflight>>

\* print(r.json()): decoding may raise; otherwise the decoded value is printed.
Print23 ==
    /\ pc = "l23"
    /\ IF IsJson(r)
       THEN /\ trace' = Append(trace, Event("print", 23, "", "", NoBody, r))
            /\ pc' = "l11"
            /\ UNCHANGED status
       ELSE Uncaught(23, <<>>, "badjson")
    /\ UNCHANGED <<projects, idx, j, url, seqs, k, z, it11, i, it24, body, r,
                   inflight>>

\* ------------------------------------------ lines 24-35: second loop
range24 == 3

For24 ==
    /\ pc = "l24"
    /\ IF it24 < range24
       THEN /\ i' = it24
            /\ it24' = it24 + 1
            /\ pc' = "l25"
       ELSE /\ pc' = "l36"
            /\ UNCHANGED <<i, it24>>
    /\ UNCHANGED <<status, projects, idx, j, url, seqs, k, z, it11, body, r,
                   inflight, trace>>

\* The range computed from the first loop's variable j instead of i.
body25_stale(n) ==
    [range |-> [from |-> j * 100, to |-> (j + 1) * 100, step |-> 1],
     parameters |-> <<>>,
     sequences |-> <<[name |-> "Arithmetic", parameters |-> <<z, k>>,
                      sequences |-> <<>>]>>]

body25(n) ==
    [range |-> [from |-> n * 100, to |-> (n + 1) * 100, step |-> 1],
     parameters |-> <<>>,
     sequences |-> <<[name |-> "Arithmetic", parameters |-> <<z, k>>,
                      sequences |-> <<>>]>>]

Body25 ==
    /\ pc = "l25"
    /\ body' = <<body25(i)>>
    /\ pc' = "l34"
    /\ UNCHANGED <<status, projects, idx, j, url, seqs, k, z, it11, i, it24, r,
                   inflight, trace>>

Post34Send ==
    /\ pc = "l34"
    /\ trace' = Append(trace, Event("send", 34, "POST", url \o "/Smoothed", body, ""))
    /\ inflight' = inflight + 1
    /\ pc' = "l34w"
    /\ UNCHANGED <<status, projects, idx, j, url, seqs, k, z, it11, i, it24, body, r>>

Post34Ok ==
    /\ pc = "l34w"
    /\ \E t \in RawBodies :
          /\ r' = t
          /\ trace' = Append(trace, Event("recv", 34, "POST", url \o "/Smoothed", NoBody, t))
    /\ inflight' = inflight - 1
    /\ pc' = "l35"
    /\ UNCHANGED <<status, projects, idx, j, url, seqs, k, z, it11, i, it24, body>>

Post34Fail ==
    /\ pc = "l34w"
    /\ Uncaught(34, <<>>, "neterr")
    /\ inflight' = inflight - 1
    /\ UNCHANGED <<projects, idx, j, url, seqs, k, z, it11, i, it24, body, r>>

Print35 ==
    /\ pc = "l35"
    /\ IF IsJson(r)
       THEN /\ trace' = Append(trace, Event("print", 35, "", "", NoBody, r))
            /\ pc' = "l24"
            /\ UNCHANGED status
       ELSE Uncaught(35, <<>>, "badjson")
    /\ UNCHANGED <<projects, idx, j, url, seqs, k, z, it11, i, it24, body, r,
                   inflight>>

\* ----------------------------------------------------- lines 36-41
\* break leaves the for statement of line 4.
Break36 ==
    /\ pc = "l36"
    /\ pc' = "l41"
    /\ UNCHANGED <<status, projects, idx, j, url, seqs, k, z, it11, i, it24,
                   body, r, inflight, trace>>

Print38 ==
    /\ pc = "l38"
    /\ trace' = Append(trace, Event("print", 38, "", "", NoBody, NotFoundMessage))
    /\ pc' = "l39"
    /\ UNCHANGED <<status, projects, idx, j, url, seqs, k, z, it11, i, it24,
                   body, r, inflight>>

\* exit(1) raises SystemExit: the interpreter stops with status 1, so
\* control never moves on to line 40.
Exit39 ==
    /\ pc = "l39"
    /\ status' = "exit1"
    /\ pc' = "done"
    /\ UNCHANGED <<projects, idx, j, url, seqs, k, z, it11, i, it24, body, r,
                   inflight, trace>>

\* End of the module: normal completion.
End41 ==
    /\ pc = "l41"
    /\ status' = "exit0"
    /\ pc' = "done"
    /\ UNCHANGED <<projects, idx, j, url, seqs, k, z, it11, i, it24, body, r,
                   inflight, trace>>

Next ==
    \/ Get3Send
    \/ Get3Ok
    \/ Get3Fail
    \/ For4
    \/ If5
    \/ Url6
    \/ Print7
    \/ Get8Send
    \/ Get8Ok
    \/ Get8Fail
    \/ Assign9
    \/ For11
    \/ Body12
    \/ Post22Send
    \/ Post22Ok
    \/ Post22Fail
    \/ Print23
    \/ For24
    \/ Body25
    \/ Post34Send
    \/ Post34Ok
    \/ Post34Fail
    \/ Print35
    \/ Break36
    \/ Print38
    \/ Exit39
    \/ End41

Spec == Init /\ [][Next]_vars

TypeOK ==
    /\ status \in {"running", "exit0", "exit1", "uncaught"}
    /\ inflight \in 0..1
    /\ idx \in 0..MaxProjects

\* ------------------------------------------------ reading the trace
Positions == 1..Len(trace)

IsSend(n) == trace[n].ev = "send"
IsPost(n) == trace[n].ev = "send" /\ trace[n].method = "POST"
IsPrint(n) == trace[n].ev = "print"

SendsTo(method, u) ==
    {n \in Positions : IsSend(n) /\ trace[n].method = method /\ trace[n].url = u}

\* The registry answered with a list that decoded.
RegistryListed ==
    /\ pc \notin {"l3", "l3w"}
    /\ \A n \in Positions : ~(trace[n].ev = "fail" /\ trace[n].line = 3)

HasTarget(ps) == \E n \in 1..Len(ps) : ps[n].name = Target

FirstMatch(ps) ==
    ps[CHOOSE n \in 1..Len(ps) :
          /\ ps[n].name = Target
          /\ \A m \in 1..(n - 1) : ps[m].name # Target]

NotFoundPrints == {n \in Positions : IsPrint(n) /\ trace[n].text = NotFoundMessage}

\* -------------------------------------------------------------- claims

\* C1: whenever the registry's list holds no entry named "Lucija & Lev"
\* (the empty list included), the program ends with exit status 1 and has
\* sent no request to any /sequence URL.
C1_AbsentTargetExits1 ==
    (pc = "done" /\ RegistryListed /\ ~HasTarget(projects))
        => /\ status = "exit1"
           /\ \A n \in Positions : IsSend(n) => trace[n].url = RegistryUrl

\* C2: whenever the registry's list holds an entry named "Lucija & Lev" at
\* any position, the first such entry is selected: the program goes on with
\* http://<ip>:<port>/sequence of that entry and does not report failure.
C2_FirstMatchSelected ==
    (pc = "done" /\ RegistryListed /\ HasTarget(projects))
        => /\ SendsTo("GET", SequenceUrl(FirstMatch(projects))) # {}
           /\ NotFoundPrints = {}
           /\ status # "exit1"

\* C3: GET /project is sent at most once; when the registry returned the
\* target project, GET <resolved address>/sequence is sent exactly once and
\* before every POST, however many POSTs follow.
C3_GetsOnce ==
    /\ Cardinality(SendsTo("GET", RegistryUrl)) <= 1
    /\ (RegistryListed /\ HasTarget(projects))
          => LET gets == SendsTo("GET", SequenceUrl(FirstMatch(projects)))
             IN /\ Cardinality(gets) <= 1
                /\ pc = "done" => Cardinality(gets) = 1
                /\ \A n \in Positions :
                      IsPost(n) => \E m \in gets : m < n

\* C4: in a run that resolves the target and in which no request fails,
\* exactly 2 POSTs go to <resolved address>/sequence/Arithmetic, exactly 2
\* to <resolved address>/sequence/Smoothed, and none to any other path.
C4_TwoAndTwoPosts ==
    (pc = "done" /\ status = "exit0" /\ url # "")
        => /\ Cardinality(SendsTo("POST", url \o "/Arithmetic")) = 2
           /\ Cardinality(SendsTo("POST", url \o "/Smoothed")) = 2
           /\ \A n \in Positions :
                 IsPost(n) => trace[n].url \in {url \o "/Arithmetic",
                                                url \o "/Smoothed"}

\* Zero-based index of the POST at position n within its loop.
LoopIndex(n) ==
    Cardinality({m \in 1..(n - 1) : IsPost(m) /\ trace[m].line = trace[n].line})

\* C5: every POST sent, with i its zero-based index within its loop, carries
\* range.from = i*100, range.to = (i+1)*100 and range.step = 1; so each loop
\* starts at from = 0 and each call starts where the previous one ended.
C5_RangeFormula ==
    \A n \in Positions :
        IsPost(n) =>
            /\ Len(trace[n].body) = 1
            /\ trace[n].body[1].range =
                  [from |-> LoopIndex(n) * 100,
                   to |-> (LoopIndex(n) + 1) * 100,
                   step |-> 1]
            /\ \A m \in 1..(n - 1) :
                  (IsPost(m) /\ trace[m].line = trace[n].line
                             /\ LoopIndex(m) + 1 = LoopIndex(n))
                      => trace[m].body[1].range.to = trace[n].body[1].range.from

C5_Witness ==
    \E n \in Positions :
        IsPost(n) /\ trace[n].line = 34 /\ LoopIndex(n) = 2

\* C6: a failed network call or a response that does not decode ends the
\* program at that point: the failure is the last thing that happens, the
\* request is not sent again and no later request is sent.
C6_FailureIsFatal ==
    \A n \in Positions :
        trace[n].ev = "fail" =>
            /\ n = Len(trace)
            /\ status = "uncaught"
            /\ pc = "done"

C6_Witness ==
    /\ status = "uncaught"
    /\ trace[Len(trace)].ev = "fail"
    /\ trace[Len(trace)].line = 22
    /\ \E n \in Positions : IsPost(n) /\ LoopIndex(n) = 1

\* C7: at most one request is outstanding at any time; between two POSTs
\* the first one's answer arrives and its decoded value is printed; every
\* POST of the first loop is sent and answered before the first POST to
\* /Smoothed.
C7_OneAtATime ==
    /\ inflight <= 1
    /\ \A m, n \in Positions :
          (IsPost(m) /\ IsPost(n) /\ m < n)
              => \E p, q \in (m + 1)..(n - 1) :
                    /\ p < q
                    /\ trace[p].ev = "recv"
                    /\ trace[p].url = trace[m].url
                    /\ IsPrint(q)
                    /\ trace[q].text = trace[p].text
    /\ \A n \in Positions :
          (IsPost(n) /\ trace[n].url = url \o "/Smoothed")
              => /\ it11 = range11
                 /\ \A m \in Positions :
                       (IsPost(m) /\ trace[m].line = 22)
                           => /\ m < n
                              /\ \E p \in (m + 1)..(n - 1) :
                                    trace[p].ev = "recv" /\ trace[p].line = 22

C7_Witness ==
    /\ inflight = 1
    /\ pc = "l34w"
    /\ it24 = 2

\* The requests that follow resolution of address u, in order.
FixedBody(n, params, nested) ==
    <<[range |-> [from |-> n * 100, to |-> (n + 1) * 100, step |-> 1],
       parameters |-> params,
       sequences |-> nested]>>

FixedRequests(u) ==
    LET first(n) == [method |-> "POST", url |-> u \o "/Arithmetc",
                     body |-> FixedBody(n, <<10, 9>>, <<>>)]
        second(n) == [method |-> "POST", url |-> u \o "/Smoothed",
                      body |-> FixedBody(n, <<>>,
                                 <<[name |-> "Arithmetic",
                                    parameters |-> <<10, 9>>,
                                    sequences |-> <<>>]>>)]
    IN <<[method |-> "GET", url |-> u, body |-> NoBody],
         first(0), first(1), second(0), second(1), second(2)>>

RequestOf(e) == [method |-> e.method, url |-> e.url, body |-> e.body]

\* The requests sent after the registry lookup, in order.
RequestsAfterResolution ==
    LET sent == SelectSeq(trace, LAMBDA e : e.ev = "send" /\ e.line > 3)
    IN [n \in 1..Len(sent) |-> RequestOf(sent[n])]

\* C8: the requests sent after resolution depend on the resolved address
\* only: whatever catalog GET /sequence returned and whatever the POSTs
\* answered, they are a prefix of one fixed sequence, and the whole of it
\* when the run completes; the fetched catalog is never used.
C8_RequestsIgnoreResponses ==
    LET reqs == RequestsAfterResolution
    IN /\ Len(reqs) > 0 =>
             /\ Len(reqs) <= Len(FixedRequests(url))
             /\ reqs = SubSeq(FixedRequests(url), 1, Len(reqs))
       /\ (status = "exit0" /\ url # "") => reqs = FixedRequests(url)

C8_Witness ==
    /\ status = "exit0"
    /\ seqs # <<>>
    /\ \E n \in Positions : trace[n].ev = "recv" /\ trace[n].text = "{}"
    /\ \E n \in Positions : trace[n].ev = "recv" /\ trace[n].text = "[1, 2]"

\* C9: of a non-empty registry list only the first entry is examined.  If
\* it is named "Lucija & Lev" the program goes on with that entry and then
\* leaves the loop; otherwise it prints the not-found message once and
\* stops with status 1 at the exit call of line 39, so that line 40 is
\* never reached.  Later entries change nothing.
C9_OnlyFirstEntry ==
    /\ idx <= 1
    /\ pc # "l40"
    /\ status = "exit1" => (pc = "done" /\ trace[Len(trace)].line = 38)
    /\ (pc = "done" /\ RegistryListed /\ Len(projects) > 0) =>
          IF projects[1].name = Target
          THEN /\ url = SequenceUrl(projects[1])
               /\ NotFoundPrints = {}
               /\ status \in {"exit0", "uncaught"}
          ELSE /\ Cardinality(NotFoundPrints) = 1
               /\ status = "exit1"
               /\ url = ""
               /\ \A n \in Positions : IsSend(n) => trace[n].url = RegistryUrl

C9_Witness ==
    /\ pc = "done"
    /\ Len(projects) >= 2
    /\ projects[1].name # Target
    /\ projects[2].name = Target
    /\ status = "exit1"

\* C10: when the registry returns the empty list the program sends nothing
\* but GET /project, prints nothing, and ends with exit status 0.
C10_EmptyListExits0 ==
    (pc = "done" /\ RegistryListed /\ projects = <<>>)
        => /\ status = "exit0"
           /\ \A n \in Positions : IsSend(n) => trace[n].url = RegistryUrl
           /\ \A n \in Positions : ~IsPrint(n)

C10_Witness ==
    /\ pc = "done"
    /\ RegistryListed
    /\ projects = <<>>
    /\ Cardinality(SendsTo("GET", RegistryUrl)) = 1
====
